---- MODULE Spec2Model ----
(***************************************************************************)
(* Model of crates/polars-parquet/src/parquet/metadata/schema_descriptor.rs *)
(* SchemaDescriptor::new / into_thrift / try_from_type / try_from_thrift /  *)
(* try_from_message and the recursive build_tree traversal.                 *)
(***************************************************************************)
EXTENDS Integers, Sequences, FiniteSets, TLC

\* ---------------------------------------------------------------- bounds
\* Largest number of type-tree nodes in one input (forest or codec tree).
MaxNodes == 3

\* ------------------------------------------------------------- data shape
None == "None"
SchemaNames == {"schema"}
Repetitions == {"Required", "Optional", "Repeated"}
PhysicalTypes == {"Int32", "Int64"}

\* FieldInfo { name, repetition, id }
FieldInfo(n, r, i) == [name |-> n, repetition |-> r, id |-> i]

\* ParquetType::PrimitiveType(p)
PrimitiveNode(fi, lt, ct, ph) ==
  [kind |-> "Primitive", field_info |-> fi,
   logical_type |-> lt, converted_type |-> ct,
   physical_type |-> ph, fields |-> <<>>]

PrimitiveType(n, r, ph) == PrimitiveNode(FieldInfo(n, r, None), None, None, ph)

\* ParquetType::GroupType { field_info, logical_type, converted_type, fields }
GroupType(fi, lt, ct, fs) ==
  [kind |-> "Group", field_info |-> fi,
   logical_type |-> lt, converted_type |-> ct,
   physical_type |-> None, fields |-> fs]

IsGroup(tp) == tp.kind = "Group"

\* ParquetType::name / get_field_info
NameOf(tp) == tp.field_info.name
get_field_info(tp) == tp.field_info

\* ------------------------------------------------- bounded input universe
\* Sibling i of any parent (and top-level field i) is named NameSeq[i].
NameSeq == <<"a", "b", "c", "d", "e", "f">>
NameAt(i) == NameSeq[i]
\* ... and, when primitive, has physical type PhysAt(i).
PhysAt(i) == IF i % 2 = 1 THEN "Int32" ELSE "Int64"

Primitives(i) == {PrimitiveType(NameAt(i), r, PhysAt(i)) : r \in Repetitions}

RECURSIVE ForestsExactly(_, _), TreesExactly(_, _)
\* all ordered forests with exactly k nodes whose first tree is sibling number i
ForestsExactly(k, i) ==
  IF k = 0 THEN {<<>>}
  ELSE UNION {{<<t>> \o rest : t \in TreesExactly(j, i),
                               rest \in ForestsExactly(k - j, i + 1)} : j \in 1..k}

\* all trees with exactly k nodes whose root is sibling number i
TreesExactly(k, i) ==
  (IF k = 1 THEN Primitives(i) ELSE {}) \cup
  {GroupType(FieldInfo(NameAt(i), r, None), None, None, fs) :
     r \in Repetitions, fs \in ForestsExactly(k - 1, 1)}

Forests == UNION {ForestsExactly(k, 1) : k \in 0..MaxNodes}
Trees == UNION {TreesExactly(k, 1) : k \in 1..MaxNodes}


\* ------------------------------------------------------ external codecs
\* ParquetError values
oos(msg) == [kind |-> "OutOfSpec", msg |-> msg]
Ok(v) == [ok |-> TRUE, val |-> v, err |-> None]
Err(e) == [ok |-> FALSE, val |-> None, err |-> e]

\* Option<i32> of SchemaElement::num_children
Some(n) == <<n>>
NoneOpt == <<>>

\* SchemaElement written for one node
SchemaElement(tp) ==
  [name |-> tp.field_info.name,
   repetition_type |-> tp.field_info.repetition,
   field_id |-> tp.field_info.id,
   type_ |-> tp.physical_type,
   num_children |-> IF IsGroup(tp) THEN Some(Len(tp.fields)) ELSE NoneOpt,
   logical_type |-> tp.logical_type,
   converted_type |-> tp.converted_type]

RECURSIVE to_thrift(_), to_thrift_children(_)
\* ParquetType::to_thrift: pre-order linearisation of the tree
to_thrift(tp) == <<SchemaElement(tp)>> \o to_thrift_children(tp.fields)
to_thrift_children(fs) ==
  IF fs = <<>> THEN <<>> ELSE to_thrift(Head(fs)) \o to_thrift_children(Tail(fs))

RECURSIVE from_thrift_helper(_, _), from_thrift_children(_, _, _, _)
\* parses the node starting at elements[index]; val = [tp, next]
from_thrift_helper(elements, index) ==
  IF index > Len(elements) THEN Err(oos("index out of bounds"))
  ELSE LET e == elements[index]
           fi == FieldInfo(e.name, e.repetition_type, e.field_id)
       IN IF e.num_children = NoneOpt
          THEN IF e.type_ = None
               THEN Err(oos("Physical type is required"))
               ELSE Ok([tp |-> PrimitiveNode(fi, e.logical_type, e.converted_type, e.type_),
                        next |-> index + 1])
          ELSE LET c == from_thrift_children(elements, index + 1, e.num_children[1], <<>>)
               IN IF c.ok
                  THEN Ok([tp |-> GroupType(fi, e.logical_type, e.converted_type, c.val.fields),
                           next |-> c.val.next])
                  ELSE c

\* parses n consecutive children starting at elements[index]; val = [fields, next]
from_thrift_children(elements, index, n, acc) ==
  IF n = 0 THEN Ok([fields |-> acc, next |-> index])
  ELSE LET r == from_thrift_helper(elements, index)
       IN IF r.ok
          THEN from_thrift_children(elements, r.val.next, n - 1, Append(acc, r.val.tp))
          ELSE r

\* ParquetType::try_from_thrift
ParquetType_try_from_thrift(elements) ==
  LET r == from_thrift_helper(elements, 1)
  IN IF ~r.ok THEN r
     ELSE IF r.val.next # Len(elements) + 1
          THEN Err(oos("Expected exactly one root node"))
          ELSE Ok(r.val.tp)

RECURSIVE MessageOf(_), MessageOfChildren(_)
\* the text of a tree, as a token sequence
MessageOf(tp) ==
  IF IsGroup(tp)
  THEN <<tp.field_info.repetition, "group", tp.field_info.name, "{">>
         \o MessageOfChildren(tp.fields) \o <<"}">>
  ELSE <<tp.field_info.repetition, tp.physical_type, tp.field_info.name, ";">>
MessageOfChildren(fs) ==
  IF fs = <<>> THEN <<>> ELSE MessageOf(Head(fs)) \o MessageOfChildren(Tail(fs))

RECURSIVE parse_node(_, _), parse_children(_, _, _)
\* parses the node starting at token i; val = [tp, next]
parse_node(toks, i) ==
  IF i + 3 > Len(toks) THEN Err(oos("unexpected end of schema"))
  ELSE IF toks[i] \notin Repetitions THEN Err(oos("expected a repetition"))
  ELSE LET fi == FieldInfo(toks[i + 2], toks[i], None)
       IN IF toks[i + 1] = "group"
          THEN IF toks[i + 3] # "{" THEN Err(oos("expected '{'"))
               ELSE LET c == parse_children(toks, i + 4, <<>>)
                    IN IF c.ok
                       THEN Ok([tp |-> GroupType(fi, None, None, c.val.fields),
                                next |-> c.val.next])
                       ELSE c
          ELSE IF toks[i + 1] \notin PhysicalTypes THEN Err(oos("unknown physical type"))
          ELSE IF toks[i + 3] # ";" THEN Err(oos("expected ';'"))
          ELSE Ok([tp |-> PrimitiveNode(fi, None, None, toks[i + 1]), next |-> i + 4])

\* parses children up to the closing brace; val = [fields, next]
parse_children(toks, i, acc) ==
  IF i > Len(toks) THEN Err(oos("expected '}'"))
  ELSE IF toks[i] = "}" THEN Ok([fields |-> acc, next |-> i + 1])
  ELSE LET r == parse_node(toks, i)
       IN IF r.ok THEN parse_children(toks, r.val.next, Append(acc, r.val.tp))
          ELSE r

\* schema::io_message::from_message
from_message(message) ==
  LET r == parse_node(message, 1)
  IN IF ~r.ok THEN r
     ELSE IF r.val.next # Len(message) + 1
          THEN Err(oos("unexpected trailing tokens"))
          ELSE Ok(r.val.tp)

\* inputs offered to try_from_thrift / try_from_message
Truncated(s) == SubSeq(s, 1, Len(s) - 1)
SmallTrees == UNION {TreesExactly(k, 1) : k \in 1..2}
ThriftInputs ==
  {to_thrift(t) : t \in Trees} \cup {<<>>}
    \cup {Truncated(to_thrift(t)) : t \in SmallTrees}
    \cup {to_thrift(t) \o to_thrift(t) : t \in TreesExactly(1, 1)}
MessageInputs ==
  {MessageOf(t) : t \in Trees} \cup {<<>>}
    \cup {Truncated(MessageOf(t)) : t \in SmallTrees}
    \cup {<<"}">> \o MessageOf(t) : t \in TreesExactly(1, 1)}

\* ------------------------------------------------------- column descriptor
\* BaseType::Owned(ParquetType) / BaseType::Arc(Arc<ParquetType>)
Owned(t) == [tag |-> "Owned", tp |-> t]
Arc(p) == [tag |-> "Arc", ptr |-> p]

\* BaseType::into_arc over the set of Arc allocations made so far
into_arc(base_tp, heap) ==
  IF base_tp.tag = "Owned"
  THEN [base_tp |-> Arc(Len(heap) + 1), arcs |-> Append(heap, base_tp.tp)]
  ELSE [base_tp |-> base_tp, arcs |-> heap]

\* Descriptor { primitive_type, max_def_level, max_rep_level }
Descriptor(p, def, rep) ==
  [primitive_type |-> p, max_def_level |-> def, max_rep_level |-> rep]

\* ColumnDescriptor::new(descriptor, path_in_schema, base_type)
ColumnDescriptor(d, path, base) ==
  [descriptor |-> d, path_in_schema |-> path, base_type |-> base]

\* ------------------------------------------------------------- build_tree
\* i16 `+= 1` (wrapping build)
I16Inc(v) == IF v = 32767 THEN -32768 ELSE v + 1

\* faulty variant: Optional raises the repetition level instead of the definition level
AdjustLevelsOptionalRep(repetition, rep, def) ==
  CASE repetition = "Optional" -> <<I16Inc(rep), def>>
    [] repetition = "Repeated" -> <<I16Inc(rep), I16Inc(def)>>
    [] OTHER -> <<rep, def>>

\* faulty variant: Repeated raises only the definition level
AdjustLevelsRepeatedDefOnly(repetition, rep, def) ==
  IF repetition \in {"Optional", "Repeated"} THEN <<rep, I16Inc(def)>>
  ELSE <<rep, def>>

\* match tp.get_field_info().repetition { ... }: <<max_rep_level, max_def_level>>
AdjustLevels(repetition, rep, def) ==
  CASE repetition = "Optional" -> <<rep, I16Inc(def)>>
    [] repetition = "Repeated" -> <<I16Inc(rep), I16Inc(def)>>
    [] OTHER -> <<rep, def>>

\* faulty variant: the leaf is put in front of the earlier ones
PushLeafFront(lvs, cd) == <<cd>> \o lvs

\* leaves.push(...)
PushLeaf(lvs, cd) == Append(lvs, cd)

\* faulty variant: the name of a finished child stays on the path
PathAfterChildKeep(path) == path

\* path_so_far.pop() after a child returns
PathAfterChild(path) == SubSeq(path, 1, Len(path) - 1)

\* faulty variant: every group starts a context of its own
ChildBaseOwnGroup(tp, base_tp) == Owned(tp)

\* base_tp.clone() handed to each child
ChildBase(tp, base_tp) == base_tp

\* faulty variant: every descent allocates a new shared copy of what the handle holds
GroupBaseFresh(base_tp, heap) ==
  [base_tp |-> Arc(Len(heap) + 1),
   arcs |-> Append(heap, IF base_tp.tag = "Owned" THEN base_tp.tp ELSE heap[base_tp.ptr])]

\* let base_tp = base_tp.into_arc()
GroupBase(base_tp, heap) == into_arc(base_tp, heap)

\* a build_tree activation: its arguments (in_rep, in_def as received),
\* its mutable locals and its position
Frame(tp, base_tp, rep, def) ==
  [tp |-> tp, base_tp |-> base_tp,
   in_rep |-> rep, in_def |-> def,
   max_rep_level |-> rep, max_def_level |-> def,
   at |-> "enter", i |-> 1]

\* ------------------------------------------------------ SchemaDescriptor
GroupRequired == oos("The parquet schema MUST be a group type")

\* Self { name, fields, leaves }, and the absence of a descriptor or an error
Self(nm, fs, lvs) == [is_some |-> TRUE, name |-> nm, fields |-> fs, leaves |-> lvs]
NoDescriptor == [is_some |-> FALSE, name |-> None, fields |-> <<>>, leaves |-> <<>>]
NoError == [kind |-> "None", msg |-> ""]

\* faulty variant: the synthetic root takes the repetition of the first field
into_thrift_rootFirstField(nm, fs) ==
  GroupType(FieldInfo(nm, IF fs = <<>> THEN "Optional" ELSE fs[1].field_info.repetition, None),
            None, None, fs)

\* the group node into_thrift builds from self
into_thrift_root(nm, fs) ==
  GroupType(FieldInfo(nm, "Optional", None), None, None, fs)

\* faulty variant: the root itself is flattened as the only field
try_from_typeRootAsField(type_) ==
  IF IsGroup(type_)
  THEN Ok([name |-> type_.field_info.name, fields |-> <<type_>>])
  ELSE Err(GroupRequired)

\* faulty variant: a primitive root is accepted as an empty schema
try_from_typeAcceptPrimitive(type_) ==
  Ok([name |-> type_.field_info.name, fields |-> type_.fields])

\* SchemaDescriptor::try_from_type: the arguments of Self::new, or the error
try_from_type(type_) ==
  IF IsGroup(type_)
  THEN Ok([name |-> type_.field_info.name, fields |-> type_.fields])
  ELSE Err(GroupRequired)

\* faulty variant: a codec failure is reported as the group-required error
QuestionMarkRewrap(r) == Err(GroupRequired)

\* the `?` on the codec's result: the error is returned as it is
QuestionMark(r) == Err(r.err)

\* ------------------------------------------------------------------ state
VARIABLES
  pc,          \* "idle", "new", "ready", "failed", "wire"
  input,       \* the operation in progress or last finished, with its argument
  name,        \* SchemaDescriptor::new: name
  fields,      \* SchemaDescriptor::new: fields
  leaves,      \* SchemaDescriptor::new: leaves
  fi,          \* SchemaDescriptor::new: position of `for f in &fields`
  path_so_far, \* SchemaDescriptor::new: path
  stack,       \* build_tree activations, innermost last
  arcs,        \* Arc allocations of this construction
  calls,       \* number of build_tree calls of this operation
  sd,          \* the descriptor returned, or None
  err,         \* the error returned, or None
  thrift_in,   \* the node into_thrift gave to the codec, or None
  elements,    \* the codec's output for it
  orig         \* the descriptor that into_thrift consumed, or None

vars == <<pc, input, name, fields, leaves, fi, path_so_far, stack, arcs, calls,
          sd, err, thrift_in, elements, orig>>

newVars == <<name, fields, leaves, fi, path_so_far, stack, arcs, calls>>
wireVars == <<thrift_in, elements, orig>>

Init ==
  /\ pc = "idle"
  /\ input = [op |-> "none", arg |-> None]
  /\ name = None
  /\ fields = <<>>
  /\ leaves = <<>>
  /\ fi = 1
  /\ path_so_far = <<>>
  /\ stack = <<>>
  /\ arcs = <<>>
  /\ calls = 0
  /\ sd = NoDescriptor
  /\ err = NoError
  /\ thrift_in = None
  /\ elements = <<>>
  /\ orig = NoDescriptor

Top == stack[Len(stack)]
ReplaceTop(fr) == [stack EXCEPT ![Len(stack)] = fr]

\* SchemaDescriptor::new entered: let mut leaves = vec![]
EnterNew(nm, fs) ==
  /\ pc' = "new"
  /\ name' = nm
  /\ fields' = fs
  /\ leaves' = <<>>
  /\ fi' = 1
  /\ path_so_far' = <<>>
  /\ stack' = <<>>
  /\ arcs' = <<>>
  /\ calls' = 0
  /\ sd' = NoDescriptor
  /\ err' = NoError

\* the operation returns the error e
Fail(e) ==
  /\ pc' = "failed"
  /\ err' = e
  /\ sd' = NoDescriptor
  /\ UNCHANGED newVars

\* pub fn new(name, fields), called by the user
New ==
  /\ pc = "idle"
  /\ \E nm \in SchemaNames, fs \in Forests :
       /\ input' = [op |-> "new", arg |-> [name |-> nm, fields |-> fs]]
       /\ EnterNew(nm, fs)
  /\ UNCHANGED wireVars

\* for f in &fields { let mut path = vec![]; build_tree(f, Owned(f.clone()), 0, 0, ..) }
NewField ==
  /\ pc = "new" /\ stack = <<>> /\ fi <= Len(fields)
  /\ path_so_far' = <<>>
  /\ stack' = <<Frame(fields[fi], Owned(fields[fi]), 0, 0)>>
  /\ calls' = calls + 1
  /\ UNCHANGED <<pc, input, name, fields, leaves, fi, arcs, sd, err, wireVars>>

\* build_tree: path_so_far.push(tp.name()) and the repetition match
Enter ==
  /\ pc = "new" /\ stack # <<>> /\ Top.at = "enter"
  /\ LET lv == AdjustLevels(get_field_info(Top.tp).repetition,
                             Top.max_rep_level, Top.max_def_level)
     IN stack' = ReplaceTop([Top EXCEPT !.max_rep_level = lv[1],
                                        !.max_def_level = lv[2],
                                        !.at = "match"])
  /\ path_so_far' = Append(path_so_far, NameOf(Top.tp))
  /\ UNCHANGED <<pc, input, name, fields, leaves, fi, arcs, calls, sd, err, wireVars>>

\* build_tree: ParquetType::PrimitiveType(p) => leaves.push(ColumnDescriptor::new(..))
EmitLeaf ==
  /\ pc = "new" /\ stack # <<>> /\ Top.at = "match" /\ ~IsGroup(Top.tp)
  /\ leaves' = PushLeaf(leaves,
                  ColumnDescriptor(Descriptor(Top.tp, Top.max_def_level, Top.max_rep_level),
                                   path_so_far, Top.base_tp))
  /\ stack' = ReplaceTop([Top EXCEPT !.at = "ret"])
  /\ UNCHANGED <<pc, input, name, fields, fi, path_so_far, arcs, calls, sd, err, wireVars>>

\* build_tree: ParquetType::GroupType => let base_tp = base_tp.into_arc()
Promote ==
  /\ pc = "new" /\ stack # <<>> /\ Top.at = "match" /\ IsGroup(Top.tp)
  /\ LET r == GroupBase(Top.base_tp, arcs)
     IN /\ arcs' = r.arcs
        /\ stack' = ReplaceTop([Top EXCEPT !.base_tp = r.base_tp, !.at = "loop", !.i = 1])
  /\ UNCHANGED <<pc, input, name, fields, leaves, fi, path_so_far, calls, sd, err, wireVars>>

\* build_tree: for f in fields { build_tree(f, base_tp.clone(), rep, def, ..) }
Descend ==
  /\ pc = "new" /\ stack # <<>> /\ Top.at = "loop" /\ Top.i <= Len(Top.tp.fields)
  /\ stack' = Append(stack, Frame(Top.tp.fields[Top.i], ChildBase(Top.tp, Top.base_tp),
                                  Top.max_rep_level, Top.max_def_level))
  /\ calls' = calls + 1
  /\ UNCHANGED <<pc, input, name, fields, leaves, fi, path_so_far, arcs, sd, err, wireVars>>

\* build_tree returns: to the loop of its caller (which pops the path) or to new
Return ==
  /\ pc = "new" /\ stack # <<>>
  /\ \/ Top.at = "ret"
     \/ Top.at = "loop" /\ Top.i > Len(Top.tp.fields)
  /\ IF Len(stack) > 1
     THEN /\ stack' = [k \in 1..(Len(stack) - 1) |->
                         IF k = Len(stack) - 1 THEN [stack[k] EXCEPT !.i = @ + 1]
                         ELSE stack[k]]
          /\ path_so_far' = PathAfterChild(path_so_far)
          /\ fi' = fi
     ELSE /\ stack' = <<>>
          /\ path_so_far' = path_so_far
          /\ fi' = fi + 1
  /\ UNCHANGED <<pc, input, name, fields, leaves, arcs, calls, sd, err, wireVars>>

\* new: Self { name, fields, leaves }
Finish ==
  /\ pc = "new" /\ stack = <<>> /\ fi > Len(fields)
  /\ sd' = Self(name, fields, leaves)
  /\ pc' = "ready"
  /\ UNCHANGED <<input, newVars, err, wireVars>>

\* pub(crate) fn into_thrift(self)
IntoThrift ==
  /\ pc = "ready"
  /\ thrift_in' = into_thrift_root(sd.name, sd.fields)
  /\ elements' = to_thrift(thrift_in')
  /\ orig' = sd
  /\ sd' = NoDescriptor
  /\ pc' = "wire"
  /\ input' = [op |-> "into_thrift", arg |-> None]
  /\ UNCHANGED <<newVars, err>>

\* try_from_type on a decoded tree
FromType(type_) ==
  LET r == try_from_type(type_)
  IN IF r.ok THEN EnterNew(r.val.name, r.val.fields) ELSE Fail(r.err)

\* pub(crate) fn try_from_thrift(elements)
TryFromThrift(els) ==
  /\ input' = [op |-> "try_from_thrift", arg |-> els]
  /\ LET schema == ParquetType_try_from_thrift(els)
     IN IF schema.ok THEN FromType(schema.val) ELSE Fail(QuestionMark(schema).err)

\* try_from_thrift on elements that arrive from elsewhere
ReadThrift ==
  /\ pc = "idle"
  /\ \E els \in ThriftInputs : TryFromThrift(els)
  /\ UNCHANGED wireVars

\* try_from_thrift on what into_thrift produced
ReadBack ==
  /\ pc = "wire"
  /\ TryFromThrift(elements)
  /\ UNCHANGED wireVars

\* pub fn try_from_message(message)
TryFromMessage ==
  /\ pc = "idle"
  /\ \E message \in MessageInputs :
       /\ input' = [op |-> "try_from_message", arg |-> message]
       /\ LET schema == from_message(message)
          IN IF schema.ok THEN FromType(schema.val) ELSE Fail(QuestionMark(schema).err)
  /\ UNCHANGED wireVars

\* the caller drops the outcome
Drop ==
  /\ pc \in {"ready", "failed"}
  /\ pc' = "idle"
  /\ input' = [op |-> "none", arg |-> None]
  /\ name' = None
  /\ fields' = <<>>
  /\ leaves' = <<>>
  /\ fi' = 1
  /\ path_so_far' = <<>>
  /\ stack' = <<>>
  /\ arcs' = <<>>
  /\ calls' = 0
  /\ sd' = NoDescriptor
  /\ err' = NoError
  /\ thrift_in' = None
  /\ elements' = <<>>
  /\ orig' = NoDescriptor

Next ==
  \/ New
  \/ NewField
  \/ Enter
  \/ EmitLeaf
  \/ Promote
  \/ Descend
  \/ Return
  \/ Finish
  \/ IntoThrift
  \/ ReadThrift
  \/ ReadBack
  \/ TryFromMessage
  \/ Drop

Spec == Init /\ [][Next]_vars


\* ------------------------------------------------- reference definitions
RECURSIVE NodePathsOfTree(_, _), NodePathsOfForest(_, _)
\* for each primitive node in pre-order, the nodes from the top down to it
NodePathsOfTree(tp, prefix) ==
  IF IsGroup(tp) THEN NodePathsOfForest(tp.fields, Append(prefix, tp))
  ELSE <<Append(prefix, tp)>>
NodePathsOfForest(fs, prefix) ==
  IF fs = <<>> THEN <<>>
  ELSE NodePathsOfTree(Head(fs), prefix) \o NodePathsOfForest(Tail(fs), prefix)

NodePaths(fs) == NodePathsOfForest(fs, <<>>)

RECURSIVE PreOrderPrims(_)
\* the primitive nodes of a forest, fields in order, children in declared order
PreOrderPrims(fs) ==
  IF fs = <<>> THEN <<>>
  ELSE (IF IsGroup(Head(fs)) THEN PreOrderPrims(Head(fs).fields) ELSE <<Head(fs)>>)
         \o PreOrderPrims(Tail(fs))

RECURSIVE CountPrims(_)
\* number of primitive nodes of a forest
CountPrims(fs) ==
  IF fs = <<>> THEN 0
  ELSE (IF IsGroup(Head(fs)) THEN CountPrims(Head(fs).fields) ELSE 1)
         + CountPrims(Tail(fs))

\* for each primitive node in pre-order, the index of its top-level field
LeafTop(fs) == [i \in 1..CountPrims(fs) |->
                  CHOOSE k \in 1..Len(fs) :
                    /\ CountPrims(SubSeq(fs, 1, k - 1)) < i
                    /\ i <= CountPrims(SubSeq(fs, 1, k))]

CountRep(np, kinds) ==
  Cardinality({k \in 1..Len(np) : np[k].field_info.repetition \in kinds})

NamesOf(np) == [k \in 1..Len(np) |-> np[k].field_info.name]

PrimsOf(lvs) == [i \in 1..Len(lvs) |-> lvs[i].descriptor.primitive_type]

\* the leaf facts that a comparison of two descriptors looks at
LeafShape(lvs) ==
  [i \in 1..Len(lvs) |->
     [path |-> lvs[i].path_in_schema,
      def |-> lvs[i].descriptor.max_def_level,
      rep |-> lvs[i].descriptor.max_rep_level,
      prim |-> lvs[i].descriptor.primitive_type]]

\* what the codec or the parser made of the input of the running operation
Decoded ==
  IF input.op = "try_from_thrift" THEN ParquetType_try_from_thrift(input.arg)
  ELSE from_message(input.arg)

Decoding == input.op \in {"try_from_thrift", "try_from_message"}

\* ----------------------------------------------------------------- claims

\* C1: every leaf's max_def_level is the number of Optional or Repeated nodes
\* on the path from its top-level field down to itself, and its max_rep_level
\* the number of Repeated nodes on that path.
C1_LevelsCountPath ==
  sd.is_some =>
    LET ref == NodePaths(sd.fields)
    IN \A i \in DOMAIN sd.leaves :
         /\ i \in DOMAIN ref
         /\ sd.leaves[i].descriptor.max_def_level = CountRep(ref[i], {"Optional", "Repeated"})
         /\ sd.leaves[i].descriptor.max_rep_level = CountRep(ref[i], {"Repeated"})

C1_Witness ==
  /\ sd.is_some
  /\ \E i \in DOMAIN sd.leaves :
       /\ Len(sd.leaves[i].path_in_schema) = 3
       /\ sd.leaves[i].descriptor.max_def_level = 2
       /\ sd.leaves[i].descriptor.max_rep_level = 1

\* C2: the leaves of a constructed descriptor are the primitive nodes of its
\* fields in pre-order, one leaf per primitive node and none for a group.
C2_LeavesArePreOrderPrims ==
  sd.is_some =>
    /\ Len(sd.leaves) = CountPrims(sd.fields)
    /\ PrimsOf(sd.leaves) = PreOrderPrims(sd.fields)

C2_Witness ==
  /\ sd.is_some
  /\ Len(sd.fields) = 2
  /\ IsGroup(sd.fields[1])
  /\ Len(sd.leaves) = 2

\* C3: the path of every leaf is the sequence of node names from its top-level
\* field down to itself, with no name of an earlier sibling or earlier field.
C3_PathIsNamesFromTop ==
  sd.is_some =>
    LET ref == NodePaths(sd.fields)
    IN \A i \in DOMAIN sd.leaves :
         /\ i \in DOMAIN ref
         /\ sd.leaves[i].path_in_schema = NamesOf(ref[i])

C3_Witness ==
  /\ sd.is_some
  /\ Len(sd.leaves) = 2
  /\ sd.leaves[1].path_in_schema = <<"a", "a">>
  /\ sd.leaves[2].path_in_schema = <<"a", "b">>

\* C4: reading back what into_thrift wrote succeeds and gives the name, the
\* fields and the leaf paths, levels and primitive types of the original.
C4_RoundTrip ==
  orig.is_some =>
    /\ pc # "failed"
    /\ pc = "ready" =>
         /\ sd.name = orig.name
         /\ sd.fields = orig.fields
         /\ LeafShape(sd.leaves) = LeafShape(orig.leaves)

C4_Witness ==
  /\ orig.is_some
  /\ pc = "ready"
  /\ \E i \in DOMAIN sd.leaves : sd.leaves[i].descriptor.max_def_level = 0
  /\ \E i \in DOMAIN sd.leaves : sd.leaves[i].descriptor.max_rep_level = 1

\* C5: a decoded tree with a primitive root makes the operation fail with the
\* group-required error and no descriptor; a group root of any repetition
\* makes it construct the descriptor of the root's name and children.
C5_RootMustBeGroup ==
  (Decoding /\ Decoded.ok) =>
    IF IsGroup(Decoded.val)
    THEN /\ pc \in {"new", "ready"}
         /\ err = NoError
         /\ name = Decoded.val.field_info.name
         /\ fields = Decoded.val.fields
         /\ pc = "ready" =>
              /\ sd.name = Decoded.val.field_info.name
              /\ sd.fields = Decoded.val.fields
              /\ PrimsOf(sd.leaves) = PreOrderPrims(Decoded.val.fields)
    ELSE /\ pc = "failed"
         /\ err = GroupRequired
         /\ ~sd.is_some

C5_Witness ==
  /\ Decoding
  /\ Decoded.ok
  /\ ~IsGroup(Decoded.val)
  /\ pc = "failed"

\* C6 as claimed: the base type of a leaf inside a group is a shared
\* reference to the group that directly contains the leaf.
C6_BaseIsDirectParent ==
  sd.is_some =>
    LET ref == NodePaths(sd.fields)
    IN \A i \in DOMAIN sd.leaves :
         (i \in DOMAIN ref /\ Len(ref[i]) >= 2) =>
           /\ sd.leaves[i].base_type.tag = "Arc"
           /\ arcs[sd.leaves[i].base_type.ptr] = ref[i][Len(ref[i]) - 1]

\* C6 amended: the base type of a leaf is the top-level field that contains
\* it, a shared reference when the leaf is inside a group and an owned copy
\* of the leaf's own node when the leaf is itself a top-level field.
C6_BaseIsTopLevelField ==
  sd.is_some =>
    LET ref == NodePaths(sd.fields)
    IN \A i \in DOMAIN sd.leaves :
         /\ i \in DOMAIN ref
         /\ IF Len(ref[i]) = 1
            THEN sd.leaves[i].base_type = Owned(ref[i][1])
            ELSE /\ sd.leaves[i].base_type.tag = "Arc"
                 /\ sd.leaves[i].base_type.ptr \in DOMAIN arcs
                 /\ arcs[sd.leaves[i].base_type.ptr] = ref[i][1]

C6_Witness ==
  /\ sd.is_some
  /\ \E i \in DOMAIN sd.leaves :
       /\ Len(sd.leaves[i].path_in_schema) = 3
       /\ sd.leaves[i].base_type.tag = "Arc"
       /\ arcs[sd.leaves[i].base_type.ptr] = sd.fields[1]

\* C7: the node into_thrift gives to the codec is one group with the
\* descriptor's name, repetition Optional, no id, no logical or converted
\* type, and the fields given at construction, in order.
C7_SyntheticRoot ==
  pc = "wire" =>
    /\ thrift_in.kind = "Group"
    /\ thrift_in.field_info.name = name
    /\ thrift_in.field_info.repetition = "Optional"
    /\ thrift_in.field_info.id = None
    /\ thrift_in.logical_type = None
    /\ thrift_in.converted_type = None
    /\ thrift_in.fields = fields
    /\ orig.name = name
    /\ orig.fields = fields

C7_Witness ==
  /\ pc = "wire"
  /\ Len(thrift_in.fields) = 2
  /\ thrift_in.fields[1].field_info.repetition = "Required"
  /\ thrift_in.fields[2].field_info.repetition = "Repeated"

\* C8: a failure of the codec or of the parser is returned as it is, without
\* any flattening and without a descriptor; a finished operation has either
\* an error or a descriptor whose leaves are those of its fields.
C8_FailureIsPropagated ==
  /\ (Decoding /\ ~Decoded.ok) =>
       /\ pc = "failed"
       /\ err = Decoded.err
       /\ ~sd.is_some
       /\ calls = 0
       /\ leaves = <<>>
  /\ pc \in {"ready", "failed"} =>
       \/ pc = "failed" /\ err # NoError /\ ~sd.is_some
       \/ /\ pc = "ready" /\ err = NoError /\ sd.is_some
          /\ Len(sd.leaves) = Len(NodePaths(sd.fields))
          /\ \A i \in DOMAIN sd.leaves :
               sd.leaves[i].descriptor.primitive_type.field_info.name
                 = sd.leaves[i].path_in_schema[Len(sd.leaves[i].path_in_schema)]

C8_Witness ==
  /\ Decoding
  /\ pc = "failed"
  /\ err = oos("Expected exactly one root node")

\* C9: at most one shared copy is made per top-level group field, a handle
\* that is already shared is passed on as it is, leaves under the same
\* top-level group hold the same handle, and exactly the leaves that are
\* top-level fields hold an owned copy.
C9_SharedOncePerField ==
  /\ Len(arcs) <= Cardinality({k \in 1..Len(fields) : k <= fi /\ IsGroup(fields[k])})
  /\ \A fr \in {stack[k] : k \in DOMAIN stack} :
       fr.base_tp.tag = "Arc" => fr.base_tp.ptr \in DOMAIN arcs
  /\ LET top == LeafTop(fields)
     IN \A i \in DOMAIN leaves :
          /\ i \in DOMAIN top
          /\ leaves[i].base_type.tag = "Owned" <=> Len(leaves[i].path_in_schema) = 1
          /\ \A j \in DOMAIN leaves :
               (j \in DOMAIN top /\ top[i] = top[j]) =>
                 leaves[i].base_type = leaves[j].base_type

C9_Witness ==
  /\ pc = "ready"
  /\ Len(arcs) = 1
  /\ Len(leaves) = 2
  /\ leaves[1].base_type = Arc(1)
  /\ leaves[2].base_type = Arc(1)

\* C10: in every activation of the traversal and in every leaf,
\* 0 <= max_rep_level <= max_def_level <= 32767, and the pair a child
\* receives is, in both components, at least the pair its parent received.
C10_LevelsOrdered ==
  /\ \A k \in DOMAIN stack :
       /\ 0 <= stack[k].in_rep /\ stack[k].in_rep <= stack[k].in_def
       /\ 0 <= stack[k].max_rep_level
       /\ stack[k].max_rep_level <= stack[k].max_def_level
       /\ stack[k].max_def_level <= 32767
       /\ stack[k].in_rep <= stack[k].max_rep_level
       /\ stack[k].in_def <= stack[k].max_def_level
       /\ k > 1 => /\ stack[k].in_rep >= stack[k - 1].in_rep
                   /\ stack[k].in_def >= stack[k - 1].in_def
  /\ \A i \in DOMAIN leaves :
       /\ 0 <= leaves[i].descriptor.max_rep_level
       /\ leaves[i].descriptor.max_rep_level <= leaves[i].descriptor.max_def_level
       /\ leaves[i].descriptor.max_def_level <= 32767

C10_Witness ==
  /\ Len(stack) = 3
  /\ stack[2].in_def = 1 /\ stack[2].in_rep = 0
  /\ stack[3].in_def = 2 /\ stack[3].in_rep = 1
  /\ stack[3].at = "ret"
====
